---- MODULE Spec2Model ----
(***************************************************************************)
(* Model of package filesearch (find.go): FindUniqueFiles wraps            *)
(* filepath.Walk with a walk function that prunes sub-directories in       *)
(* non-recursive mode, filters regular files through IncludeFileFn, hashes *)
(* accepted files, tracks digest -> first-seen path, and reports every     *)
(* accepted file to FoundFileFn.                                           *)
(*                                                                         *)
(* Strings (paths, digests) are sequences of one-character strings, so     *)
(* that prefix trimming, joining and hex encoding are computed character   *)
(* by character.  Error values are records of one shape.                   *)
(***************************************************************************)
EXTENDS Integers, Sequences, FiniteSets, TLC

VARIABLES
    fs,                   \* the directory tree: absolute path -> [kind, content]
    config,               \* the FindUniqueFilesConfig of the call
    pc,                   \* "start", "search" (walker made), "walking", "done"
    absTargetDirPath,     \* statefulFileWalker.absTargetDirPath
    fileHashesToPrevious, \* statefulFileWalker.fileHashesToPrevious
    frames,               \* the directories filepath.Walk is inside of
    visits,               \* the calls of fileWalkFunc: path, kind, err, ret
    predCalls,            \* the calls of IncludeFileFn: path, verdict
    opened,               \* the os.Open calls of hashFile: path, failure
    records,              \* the StatefulFileInfo values handed to FoundFileFn
    result,               \* what FindUniqueFiles returned
    fsAccess,             \* number of Lstat, directory reads and opens so far
    absCalls,             \* number of filepath.Abs calls so far
    events,               \* the order of visits, opens, reads, closes, callbacks
    calls,                \* number of FindUniqueFiles invocations so far
    earlier               \* digests that walkers of earlier invocations indexed

vars == <<fs, config, pc, absTargetDirPath, fileHashesToPrevious, frames,
          visits, predCalls, opened, records, result, fsAccess, absCalls,
          events, calls, earlier>>

(***************************************************************************)
(* Bounds                                                                  *)
(***************************************************************************)
\* number of distinct ordinary (non-sentinel) error values FoundFileFn may return
MaxCallbackErr == 1

\* number of FindUniqueFiles invocations, one after the other
MaxCalls == 2

(***************************************************************************)
(* Error values                                                            *)
(***************************************************************************)
Err(kind, path, cause) == [kind |-> kind, path |-> path, cause |-> cause]

\* Go's nil error
Nil == Err("nil", <<>>, "")

\* filepath.SkipDir and filepath.SkipAll, the sentinels filepath.Walk interprets
SkipDir == Err("SkipDir", <<>>, "")

SkipAll == Err("SkipAll", <<>>, "")

\* an *os.PathError of the traversal (lstat, readdir) or of open/read
PathError(op, path, errno) == Err(op, path, errno)

\* the cause returned as it is, without the wrapping
HashErrorUnwrapped(filePath, cause) == cause

\* the wrapped error of fmt.Errorf("failed to hash file '%s' - %w", filePath, err):
\* it names the file and carries the cause; it is never identical to a sentinel
HashError(filePath, cause) == Err("failed to hash file", filePath, cause.cause)

\* ordinary error values a FoundFileFn may return
CallbackCauses == <<"E1", "E2", "E3">>

CallbackErrs == { Err("callback", <<>>, CallbackCauses[i]) : i \in 1..MaxCallbackErr }

\* everything a FoundFileFn may return: nil, an ordinary error, or one of the
\* sentinels of path/filepath (a caller is free to return those too)
CallbackRets == {Nil, SkipDir, SkipAll} \cup CallbackErrs

(***************************************************************************)
(* Strings and paths (package strings, path/filepath on a Unix system)     *)
(***************************************************************************)
Sep == "/"

IsAbs(p) == Len(p) > 0 /\ p[1] = Sep

\* the non-empty components of a path
RECURSIVE Components(_)
Components(p) ==
    IF p = <<>> THEN <<>>
    ELSE IF Head(p) = Sep THEN Components(Tail(p))
    ELSE LET n == CHOOSE k \in 1..Len(p) :
                     /\ \A j \in 1..k : p[j] # Sep
                     /\ (k = Len(p) \/ p[k+1] = Sep)
         IN  <<SubSeq(p, 1, n)>> \o Components(SubSeq(p, n+1, Len(p)))

RECURSIVE JoinComponents(_)
JoinComponents(cs) ==
    IF cs = <<>> THEN <<>>
    ELSE IF Len(cs) = 1 THEN cs[1]
    ELSE cs[1] \o <<Sep>> \o JoinComponents(Tail(cs))

\* filepath.Clean, for paths without "." and ".." elements: repeated and
\* trailing separators are removed, the root stays "/", the empty path is "."
Clean(p) ==
    LET cs == Components(p)
    IN  IF IsAbs(p) THEN <<Sep>> \o JoinComponents(cs)
        ELSE IF cs = <<>> THEN <<".">>
        ELSE JoinComponents(cs)

\* filepath.Join(dir, name)
Join(dir, name) == Clean(dir \o <<Sep>> \o name)

\* filepath.Dir(path): the path without its last element, cleaned
Dir(path) ==
    LET cs == Components(path)
    IN  IF cs = <<>> THEN Clean(path)
        ELSE IF IsAbs(path) THEN <<Sep>> \o JoinComponents(SubSeq(cs, 1, Len(cs) - 1))
        ELSE IF Len(cs) = 1 THEN <<".">>
        ELSE JoinComponents(SubSeq(cs, 1, Len(cs) - 1))

HasPrefix(s, prefix) ==
    Len(s) >= Len(prefix) /\ SubSeq(s, 1, Len(prefix)) = prefix

\* strings.TrimPrefix(s, prefix)
TrimPrefix(s, prefix) ==
    IF HasPrefix(s, prefix) THEN SubSeq(s, Len(prefix) + 1, Len(s)) ELSE s

\* the working directory of the process
Cwd == <<"/", "r">>

\* filepath.Abs(path) when the working directory can be read
Abs(path) == IF IsAbs(path) THEN Clean(path) ELSE Join(Cwd, path)

(***************************************************************************)
(* Hashing                                                                 *)
(***************************************************************************)
HexDigits == <<"0","1","2","3","4","5","6","7","8","9","a","b","c","d","e","f">>

\* hex.EncodeToString
RECURSIVE EncodeToString(_)
EncodeToString(bytes) ==
    IF bytes = <<>> THEN <<>>
    ELSE <<HexDigits[(Head(bytes) \div 16) + 1], HexDigits[(Head(bytes) % 16) + 1]>>
         \o EncodeToString(Tail(bytes))

RECURSIVE SumBytes(_)
SumBytes(bytes) == IF bytes = <<>> THEN 0 ELSE Head(bytes) + SumBytes(Tail(bytes))

\* sha256.New() fed with content, then Sum(nil): a collision-free digest of
\* fixed non-zero length (here the length-prefixed content, padded)
Sha256Sum(content) ==
    <<Len(content)>> \o content \o [i \in 1..(3 - Len(content)) |-> 255]

\* a caller-supplied HasherFn: an additive checksum, which collides
ChecksumSum(content) == <<SumBytes(content) % 256>>

\* FindUniqueFilesConfig.pickHasher
pickHasher(cfg) == IF cfg.HasherFn = "nil" THEN "sha256" ELSE cfg.HasherFn

\* hasher.Sum(nil) after io.Copy(hasher, f)
HasherSum(hasher, content) ==
    IF hasher = "sha256" THEN Sha256Sum(content) ELSE ChecksumSum(content)

\* the string hashFile returns when open and read succeed
hashFileOk(content, hasher) == EncodeToString(HasherSum(hasher, content))

(***************************************************************************)
(* The file system the walk runs on                                        *)
(***************************************************************************)
DirEntry == [kind |-> "dir", content |-> <<>>]

RegEntry(content) == [kind |-> "reg", content |-> content]

\* a symbolic link (or device, pipe): neither a directory nor a regular file
LinkEntry == [kind |-> "link", content |-> <<>>]

\*  /a  /r/a  /r/b/a  /r/b/b  /r/c  /r/l -> link
FS1 ==
    (<<"/">> :> DirEntry) @@
    (<<"/","a">> :> RegEntry(<<1>>)) @@
    (<<"/","r">> :> DirEntry) @@
    (<<"/","r","/","a">> :> RegEntry(<<1>>)) @@
    (<<"/","r","/","b">> :> DirEntry) @@
    (<<"/","r","/","b","/","a">> :> RegEntry(<<2>>)) @@
    (<<"/","r","/","b","/","b">> :> RegEntry(<<1>>)) @@
    (<<"/","r","/","c">> :> RegEntry(<<1,1>>)) @@
    (<<"/","r","/","l">> :> LinkEntry)

\*  /r/a/a (empty)  /r/b (empty)  /r/c
FS2 ==
    (<<"/">> :> DirEntry) @@
    (<<"/","r">> :> DirEntry) @@
    (<<"/","r","/","a">> :> DirEntry) @@
    (<<"/","r","/","a","/","a">> :> RegEntry(<<>>)) @@
    (<<"/","r","/","b">> :> RegEntry(<<>>)) @@
    (<<"/","r","/","c">> :> RegEntry(<<2>>))

FileSystems == {FS1, FS2}

\* entry names in the lexical order in which readDirNames sorts them
Names == <<"a", "b", "c", "l", "r", "x">>

\* readDirNames(path): the sorted names of the entries of directory path
readDirNames(fsys, path) ==
    SelectSeq(Names, LAMBDA n : Join(path, <<n>>) \in DOMAIN fsys
                                /\ Join(path, <<n>>) # path)

\* the os.FileInfo that Lstat returns for an entry
FileInfo(fsys, path) ==
    [IsDir |-> fsys[path].kind = "dir", IsRegular |-> fsys[path].kind = "reg"]

\* the nil FileInfo handed to the walk function when Lstat failed
NoFileInfo == [IsDir |-> FALSE, IsRegular |-> FALSE]

(***************************************************************************)
(* Configuration                                                           *)
(***************************************************************************)
TargetDirPaths ==
    { <<"/">>, <<"/","r">>, <<"/","r","/">>, <<"b">>, <<"/","x">> }

\* IncludeFileFn and FoundFileFn are "nil" or "set"; HasherFn is "nil" or
\* names the caller's hasher
Configs ==
    [ TargetDirPath : TargetDirPaths,
      Recursive     : BOOLEAN,
      AllowDupes    : BOOLEAN,
      HasherFn      : {"nil", "checksum"},
      IncludeFileFn : {"nil", "set"},
      FoundFileFn   : {"nil", "set"} ]

\* only the first of the two checks
ValidateIncludeOnly(o) ==
    IF o.IncludeFileFn = "nil" THEN Err("validation", <<>>, "IncludeFileFn cannot be nil")
    ELSE Nil

\* FindUniqueFilesConfig.Validate
Validate(o) ==
    IF o.IncludeFileFn = "nil" THEN Err("validation", <<>>, "IncludeFileFn cannot be nil")
    ELSE IF o.FoundFileFn = "nil" THEN Err("validation", <<>>, "FoundFileFn cannot be nil")
    ELSE Nil

\* make(map[string]string)
EmptyMap == [h \in {} |-> <<>>]

(***************************************************************************)
(* The walk function                                                       *)
(***************************************************************************)
\* what the environment answers during one call of fileWalkFunc: the
\* predicate's verdict, how opening/reading the file goes, and what the
\* found callback returns
Envs ==
    [ include : BOOLEAN, io : {"ok", "openfail", "readfail"}, found : CallbackRets ]

\* one entry of the order of events
Event(ev, path) == [ev |-> ev, path |-> path]

\* hashFile without the defer: the file is closed on the last line only
hashFileCloseAtEnd(fsys, filePath, hasher, io) ==
    IF io = "openfail"
    THEN [ hash |-> <<>>, err |-> PathError("open", filePath, "EACCES"),
           events |-> <<Event("openfail", filePath)>> ]
    ELSE IF io = "readfail"
    THEN [ hash |-> <<>>, err |-> PathError("read", filePath, "EIO"),
           events |-> <<Event("open", filePath), Event("readfail", filePath)>> ]
    ELSE [ hash |-> hashFileOk(fsys[filePath].content, hasher), err |-> Nil,
           events |-> <<Event("open", filePath), Event("read", filePath),
                        Event("close", filePath)>> ]

\* hashFile(filePath, hasher): os.Open, defer f.Close(), io.Copy; the
\* deferred Close runs on both returns that follow it
hashFile(fsys, filePath, hasher, io) ==
    IF io = "openfail"
    THEN [ hash |-> <<>>, err |-> PathError("open", filePath, "EACCES"),
           events |-> <<Event("openfail", filePath)>> ]
    ELSE IF io = "readfail"
    THEN [ hash |-> <<>>, err |-> PathError("read", filePath, "EIO"),
           events |-> <<Event("open", filePath), Event("readfail", filePath),
                        Event("close", filePath)>> ]
    ELSE [ hash |-> hashFileOk(fsys[filePath].content, hasher), err |-> Nil,
           events |-> <<Event("open", filePath), Event("read", filePath),
                        Event("close", filePath)>> ]

\* the prune forgotten: sub-directories are always descended into
shouldSkipDirNever(o, filePath, info) == FALSE

\* the Recursive flag ignored: every sub-directory is pruned
shouldSkipDirAnyMode(o, filePath, info) ==
    info.IsDir /\ filePath # o.absTargetDirPath

\* line 140: a sub-directory met in non-recursive mode
shouldSkipDir(o, filePath, info) ==
    ~o.config.Recursive /\ info.IsDir /\ filePath # o.absTargetDirPath

\* only directories are passed over: links and devices are treated as files
isPassedOverDirsOnly(info) == info.IsDir

\* the negation lost: regular files are passed over, other entries are not
isPassedOverInverted(info) == info.IsDir \/ info.IsRegular

\* line 145: directories and non-regular files are passed over
isPassedOver(info) == info.IsDir \/ ~info.IsRegular

\* only the "ok" of the map read kept, the value dropped
lookupPreviousSeenOnly(index, fileHash) ==
    [previousFilePath |-> <<>>, hasBeenSeen |-> fileHash \in DOMAIN index]

\* line 162: previousFilePath, hasBeenSeen = o.fileHashesToPrevious[fileHash]
lookupPrevious(index, fileHash) ==
    IF fileHash \in DOMAIN index
    THEN [previousFilePath |-> index[fileHash], hasBeenSeen |-> TRUE]
    ELSE [previousFilePath |-> <<>>, hasBeenSeen |-> FALSE]

\* line 164: the path stored for a digest seen for the first time
storedPath(filePath, absDir) == TrimPrefix(filePath, absDir)

\* a store that is not guarded by the lookup: every file overwrites the entry
indexAfterOverwrite(index, fileHash, filePath, absDir) ==
    (fileHash :> storedPath(filePath, absDir)) @@ index

\* lines 163-165: the index after the lookup
indexAfter(index, fileHash, filePath, absDir) ==
    IF fileHash \in DOMAIN index THEN index
    ELSE (fileHash :> storedPath(filePath, absDir)) @@ index

\* lines 168-176: the record handed to FoundFileFn
StatefulFileInfo(hasBeenSeen, previousFilePath, filePath, fileHash, absDir) ==
    [ AlreadySeen      |-> hasBeenSeen,
      PreviousFilePath |-> previousFilePath,
      FilePath         |-> filePath,
      ParentDirPath    |-> Dir(filePath),
      Hash             |-> fileHash,
      AbsSearchDirPath |-> absDir ]

\* the predicate's verdict ignored
rejectedNever(verdict) == FALSE

\* line 149: if !o.config.IncludeFileFn(filePath), on the predicate's verdict
rejected(verdict) == ~verdict

\* the flag ignored: every accepted file is hashed and tracked
tracksHashesAlways(o) == TRUE

\* line 156: if !o.config.AllowDupes
tracksHashes(o) == ~o.config.AllowDupes

\* what one call leaves behind when it touches nothing
NoEffect(o, ret) ==
    [ ret |-> ret, index |-> o.fileHashesToPrevious,
      predCalls |-> <<>>, opened |-> <<>>, records |-> <<>>, events |-> <<>> ]

\* lines 153-176, for an accepted file
reportFile(o, fsys, filePath, env) ==
    LET asked == <<[path |-> filePath, res |-> env.include]>>
    IN  IF tracksHashes(o)
        THEN LET h == hashFile(fsys, filePath, pickHasher(o.config), env.io)
                 l == lookupPrevious(o.fileHashesToPrevious, h.hash)
             IN  IF h.err # Nil
                 THEN [ NoEffect(o, HashError(filePath, h.err)) EXCEPT
                          !.predCalls = asked,
                          !.opened = <<[path |-> filePath, err |-> h.err]>>,
                          !.events = h.events ]
                 ELSE [ ret       |-> env.found,
                        index     |-> indexAfter(o.fileHashesToPrevious, h.hash,
                                                 filePath, o.absTargetDirPath),
                        predCalls |-> asked,
                        opened    |-> <<[path |-> filePath, err |-> Nil]>>,
                        records   |-> << StatefulFileInfo(l.hasBeenSeen, l.previousFilePath,
                                            filePath, h.hash, o.absTargetDirPath) >>,
                        events    |-> h.events \o <<Event("found", filePath)>> ]
        ELSE [ NoEffect(o, env.found) EXCEPT
                 !.predCalls = asked,
                 !.records = << StatefulFileInfo(FALSE, <<>>, filePath, <<>>,
                                                 o.absTargetDirPath) >>,
                 !.events = <<Event("found", filePath)>> ]

\* the prune decided before the error of the traversal is looked at
fileWalkFuncPruneFirst(o, fsys, filePath, info, err, env) ==
    IF shouldSkipDir(o, filePath, info) THEN NoEffect(o, SkipDir)
    ELSE IF err # Nil THEN NoEffect(o, err)
    ELSE IF isPassedOver(info) THEN NoEffect(o, Nil)
    ELSE IF rejected(env.include)
    THEN [ NoEffect(o, Nil) EXCEPT !.predCalls = <<[path |-> filePath, res |-> env.include]>> ]
    ELSE reportFile(o, fsys, filePath, env)

\* statefulFileWalker.fileWalkFunc(filePath, info, err)
fileWalkFunc(o, fsys, filePath, info, err, env) ==
    IF err # Nil THEN NoEffect(o, err)
    ELSE IF shouldSkipDir(o, filePath, info) THEN NoEffect(o, SkipDir)
    ELSE IF isPassedOver(info) THEN NoEffect(o, Nil)
    ELSE IF rejected(env.include)
    THEN [ NoEffect(o, Nil) EXCEPT !.predCalls = <<[path |-> filePath, res |-> env.include]>> ]
    ELSE reportFile(o, fsys, filePath, env)

(***************************************************************************)
(* filepath.Walk                                                           *)
(***************************************************************************)
\* frames: one [dir, rest] per directory being listed by walk(), innermost
\* last; rest are the names of dir still to visit

\* walk() returns nil from every directory whose names are exhausted
RECURSIVE Unwind(_)
Unwind(fr) ==
    IF fr = <<>> THEN <<>>
    ELSE IF fr[Len(fr)].rest = <<>> THEN Unwind(SubSeq(fr, 1, Len(fr) - 1))
    ELSE fr

\* Walk's last lines: SkipDir and SkipAll become nil, other values pass
WalkReturn(err) == IF err = SkipDir \/ err = SkipAll THEN Nil ELSE err

\* Walk returns
Finish(err) == [frames |-> <<>>, done |-> TRUE, result |-> WalkReturn(err)]

\* the loops of walk() go on with the directories that have names left
Continue(fr) ==
    IF Unwind(fr) = <<>> THEN Finish(Nil)
    ELSE [frames |-> Unwind(fr), done |-> FALSE, result |-> Nil]

\* walk(dir) returned err # nil to its caller; callers are the loops of the
\* frames below (a loop swallows SkipDir returned for a directory and
\* returns anything else), or Walk itself
returnFromDir(err, below) ==
    IF below # <<>> /\ err = SkipDir THEN Continue(below) ELSE Finish(err)

\* walk(path, info, fn) for an entry whose Lstat succeeded, called from Walk
\* (callers = <<>>) or from the loop of the innermost frame of callers;
\* rerr is what readDirNames answered for a directory
walk(callers, path, info, names, rerr, ret) ==
    IF ~info.IsDir
    THEN \* return walkFn(path, info, nil)
         IF ret = Nil THEN Continue(callers)
         ELSE IF callers = <<>> THEN Finish(ret)
         ELSE returnFromDir(ret, SubSeq(callers, 1, Len(callers) - 1))
    ELSE \* err1 := walkFn(path, info, err); if err != nil || err1 != nil return err1
         IF rerr = Nil /\ ret = Nil
         THEN Continue(Append(callers, [dir |-> path, rest |-> names]))
         ELSE IF ret = Nil THEN Continue(callers)
         ELSE IF callers = <<>> THEN Finish(ret)
         ELSE IF ret = SkipDir THEN Continue(callers)
         ELSE returnFromDir(ret, SubSeq(callers, 1, Len(callers) - 1))

\* the loop of walk() after walkFn answered ret for an entry whose Lstat failed
lstatFailed(callers, ret) ==
    IF ret = Nil \/ ret = SkipDir THEN Continue(callers)
    ELSE returnFromDir(ret, SubSeq(callers, 1, Len(callers) - 1))

(***************************************************************************)
(* State machine                                                           *)
(***************************************************************************)
Init ==
    /\ fs \in FileSystems
    /\ config \in Configs
    /\ pc = "start"
    /\ absTargetDirPath = <<>>
    /\ fileHashesToPrevious = EmptyMap
    /\ frames = <<>>
    /\ visits = <<>>
    /\ predCalls = <<>>
    /\ opened = <<>>
    /\ records = <<>>
    /\ result = Nil
    /\ fsAccess = 0
    /\ absCalls = 0
    /\ events = <<>>
    /\ calls = 0
    /\ earlier = {}

\* the receiver of fileWalkFunc
Walker ==
    [ absTargetDirPath     |-> absTargetDirPath,
      fileHashesToPrevious |-> fileHashesToPrevious,
      config               |-> config ]

\* the map of the walker before is kept in use instead of a new one
newIndexShared(old) == old

\* line 119: make(map[string]string); old is the map of the walker before
newIndex(old) == EmptyMap

\* FindUniqueFiles up to the call of search(): newFileWalker validates the
\* configuration, resolves the directory and makes the empty index.  It may
\* be invoked again after it has returned.
FindUniqueFiles ==
    /\ pc \in {"start", "done"}
    /\ pc = "done" => calls < MaxCalls
    /\ calls' = calls + 1
    /\ earlier' = earlier \cup DOMAIN fileHashesToPrevious
    /\ IF Validate(config) # Nil
       THEN /\ pc' = "done"
            /\ result' = Validate(config)
            /\ absTargetDirPath' = <<>>
            /\ absCalls' = 0
       ELSE \E getwdOk \in BOOLEAN :
            /\ absCalls' = 1
            /\ IF ~IsAbs(config.TargetDirPath) /\ ~getwdOk
               THEN /\ pc' = "done"
                    /\ result' = PathError("getwd", <<>>, "ENOENT")
                    /\ absTargetDirPath' = <<>>
               ELSE /\ pc' = "search"
                    /\ absTargetDirPath' = Abs(config.TargetDirPath)
                    /\ result' = Nil
    /\ fileHashesToPrevious' = newIndex(fileHashesToPrevious)
    /\ frames' = <<>>
    /\ visits' = <<>>
    /\ predCalls' = <<>>
    /\ opened' = <<>>
    /\ records' = <<>>
    /\ events' = <<>>
    /\ fsAccess' = 0
    /\ UNCHANGED <<fs, config>>

\* the effects of one call of the walk function and of what Walk does with
\* its answer
Visited(path, kind, err, out, next, accesses) ==
    /\ visits' = Append(visits, [path |-> path, kind |-> kind, err |-> err, ret |-> out.ret])
    /\ fileHashesToPrevious' = out.index
    /\ predCalls' = predCalls \o out.predCalls
    /\ opened' = opened \o out.opened
    /\ records' = records \o out.records
    /\ fsAccess' = fsAccess + accesses + Len(out.opened)
    /\ frames' = next.frames
    /\ pc' = IF next.done THEN "done" ELSE "walking"
    /\ result' = next.result
    /\ events' = events \o <<Event("visit", path)>> \o out.events
                        \o (IF next.done THEN <<Event("return", <<>>)>> ELSE <<>>)
    /\ UNCHANGED <<fs, config, absTargetDirPath, absCalls, calls, earlier>>

\* one entry: Lstat, readDirNames for a directory, the walk function, and
\* the return path through walk() and Walk
VisitEntry(callers, path, lstatErrno, readErrno, env) ==
    IF path \notin DOMAIN fs \/ lstatErrno # "ok"
    THEN LET err == PathError("lstat", path,
                              IF path \in DOMAIN fs THEN lstatErrno ELSE "ENOENT")
             out == fileWalkFunc(Walker, fs, path, NoFileInfo, err, env)
         IN  Visited(path, "none", err, out,
                     IF callers = <<>> THEN Finish(out.ret)
                     ELSE lstatFailed(callers, out.ret), 1)
    ELSE LET info == FileInfo(fs, path)
             rerr == IF info.IsDir /\ readErrno # "ok"
                     THEN PathError("open", path, readErrno) ELSE Nil
             out  == fileWalkFunc(Walker, fs, path, info, rerr, env)
         IN  Visited(path, fs[path].kind, rerr, out,
                     walk(callers, path, info, readDirNames(fs, path), rerr, out.ret),
                     IF info.IsDir THEN 2 ELSE 1)

Errnos == {"ok", "EACCES"}

\* search(): filepath.Walk(o.absTargetDirPath, o.fileWalkFunc) visits the root
WalkRoot ==
    /\ pc = "search"
    /\ \E le \in Errnos, re \in Errnos, env \in Envs :
          VisitEntry(<<>>, absTargetDirPath, le, re, env)

\* one turn of the loop of walk() over the names of the innermost directory
WalkEntry ==
    /\ pc = "walking"
    /\ LET top  == frames[Len(frames)]
           rest == [frames EXCEPT ![Len(frames)].rest = Tail(top.rest)]
       IN  \E le \in Errnos, re \in Errnos, env \in Envs :
              VisitEntry(rest, Join(top.dir, <<Head(top.rest)>>), le, re, env)

Next == FindUniqueFiles \/ WalkRoot \/ WalkEntry

Spec == Init /\ [][Next]_vars

(***************************************************************************)
(* Properties                                                              *)
(***************************************************************************)
Last(q) == q[Len(q)]

IsSuffix(suf, q) ==
    Len(suf) <= Len(q) /\ SubSeq(q, Len(q) - Len(suf) + 1, Len(q)) = suf

IsSeqPrefix(pre, q) == Len(pre) <= Len(q) /\ SubSeq(q, 1, Len(pre)) = pre

\* path is the directory root or lies below it
IsUnder(root, path) == IsSeqPrefix(Components(root), Components(path))

\* path lies inside a sub-directory of root (not directly in root)
InSubDir(root, path) ==
    /\ IsUnder(root, path)
    /\ Len(Components(path)) > Len(Components(root)) + 1

\* the path of target relative to base, for a target at or below base
\* (what filepath.Rel answers): no leading separator, "." for base itself
RelPath(base, target) ==
    IF Components(target) = Components(base) THEN <<".">>
    ELSE JoinComponents(SubSeq(Components(target), Len(Components(base)) + 1,
                               Len(Components(target))))

\* the records handed to FoundFileFn before record j that carry j's digest
EarlierSame(j) == { i \in 1..(j - 1) : records[i].Hash = records[j].Hash }

FirstSame(j) == CHOOSE i \in EarlierSame(j) : \A k \in EarlierSame(j) : i <= k

Reported(path) == \E j \in 1..Len(records) : records[j].FilePath = path

Asked(path) == \E j \in 1..Len(predCalls) : predCalls[j].path = path

\* C1: with AllowDupes = false, among the reported files of one digest only
\* the first one in traversal order has AlreadySeen = false; every later one
\* has AlreadySeen = true and carries the value the index holds for the
\* digest, which was stored for the first one (a tail of the first one's
\* path); a file whose digest is new is reported with AlreadySeen = false
C1_FirstSeenOnce ==
    ~config.AllowDupes =>
        \A j \in 1..Len(records) :
            IF EarlierSame(j) = {}
            THEN ~records[j].AlreadySeen
            ELSE /\ records[j].AlreadySeen
                 /\ ~records[FirstSame(j)].AlreadySeen
                 /\ records[j].Hash \in DOMAIN fileHashesToPrevious
                 /\ records[j].PreviousFilePath = fileHashesToPrevious[records[j].Hash]
                 /\ IsSuffix(records[j].PreviousFilePath, records[FirstSame(j)].FilePath)
                 /\ records[FirstSame(j)].FilePath # records[j].FilePath

\* three reported files of one digest and one of another digest
C1_Witness ==
    /\ ~config.AllowDupes
    /\ pc = "done"
    /\ \E i, j, k, m \in 1..Len(records) :
          /\ i < j /\ j < k
          /\ records[i].Hash = records[j].Hash
          /\ records[j].Hash = records[k].Hash
          /\ records[m].Hash # records[i].Hash

\* C2: a record with AlreadySeen = true carries the path of the first file
\* of its digest relative to the absolute search root (a.txt for root R and
\* first file R/a.txt)
C2_PreviousIsRelative ==
    \A j \in 1..Len(records) :
        records[j].AlreadySeen =>
            /\ EarlierSame(j) # {}
            /\ records[j].PreviousFilePath =
                  RelPath(absTargetDirPath, records[FirstSame(j)].FilePath)

\* C3: with AllowDupes = true every accepted file is reported as not seen,
\* with empty Hash and PreviousFilePath; nothing is opened and the index
\* stays empty
C3_AllowDupesReportsUnseen ==
    config.AllowDupes =>
        /\ \A j \in 1..Len(records) :
              /\ ~records[j].AlreadySeen
              /\ records[j].Hash = <<>>
              /\ records[j].PreviousFilePath = <<>>
        /\ \A j \in 1..Len(predCalls) :
              predCalls[j].res => Reported(predCalls[j].path)
        /\ opened = <<>>
        /\ fileHashesToPrevious = EmptyMap

\* two files of equal content both reported in one walk with AllowDupes
C3_Witness ==
    /\ config.AllowDupes
    /\ pc = "done"
    /\ \E i, j \in 1..Len(records) :
          /\ i < j
          /\ fs[records[i].FilePath].content = fs[records[j].FilePath].content

\* visit i is a call of the walk function for a sub-directory of the root
IsSubDirVisit(i) ==
    visits[i].kind = "dir" /\ visits[i].path # absTargetDirPath

\* visit i was answered with SkipDir, nothing below the root's own entries
\* is visited, and the walk does not end in an error with it
Pruned(i) ==
    /\ visits[i].ret = SkipDir
    /\ \A k \in 1..Len(visits) : ~InSubDir(absTargetDirPath, visits[k].path)
    /\ (i = Len(visits) /\ pc = "done") => result = Nil

\* what the claim says of the files: none inside a sub-directory is asked
\* about or reported, and a regular file visited after a pruned
\* sub-directory is presented to the predicate
NonRecursiveFiles ==
    /\ \A j \in 1..Len(predCalls) : ~InSubDir(absTargetDirPath, predCalls[j].path)
    /\ \A j \in 1..Len(records) : ~InSubDir(absTargetDirPath, records[j].FilePath)
    /\ \A i, j \in 1..Len(visits) :
          (i < j /\ IsSubDirVisit(i) /\ visits[i].ret = SkipDir /\ visits[j].kind = "reg")
              => Asked(visits[j].path)

\* C4 as stated: with Recursive = false no file inside a sub-directory of
\* the root reaches the predicate or the callback, EVERY sub-directory of
\* the root is pruned without producing an error, and the regular files
\* directly under the root are still presented to the predicate
C4_Original ==
    ~config.Recursive =>
        /\ NonRecursiveFiles
        /\ \A i \in 1..Len(visits) : IsSubDirVisit(i) => Pruned(i)

\* C4 amended: as C4, for every sub-directory of the root for which the
\* traversal reports no error (one whose listing fails ends the walk with
\* that error; its content is not visited either)
C4_NonRecursivePrunes ==
    ~config.Recursive =>
        /\ NonRecursiveFiles
        /\ \A i \in 1..Len(visits) :
              (IsSubDirVisit(i) /\ visits[i].err = Nil) => Pruned(i)
        /\ \A k \in 1..Len(visits) : ~InSubDir(absTargetDirPath, visits[k].path)

\* a finished non-recursive walk that pruned a sub-directory holding files
\* and presented a regular file of the root after it
C4_Witness ==
    /\ ~config.Recursive
    /\ pc = "done" /\ result = Nil
    /\ \E i, j \in 1..Len(visits) :
          /\ i < j
          /\ IsSubDirVisit(i) /\ visits[i].ret = SkipDir
          /\ readDirNames(fs, visits[i].path) # <<>>
          /\ visits[j].kind = "reg" /\ Asked(visits[j].path)

\* no error was met: the traversal reported none, and no file's hashing or
\* callback answered one
NoErrorMet ==
    /\ visits # <<>>
    /\ result = Nil
    /\ \A i \in 1..Len(visits) :
          /\ visits[i].err = Nil
          /\ visits[i].kind # "dir" => visits[i].ret = Nil

TimesAsked(path) == Cardinality({ j \in 1..Len(predCalls) : predCalls[j].path = path })

\* C5: with Recursive = true a walk that ends without meeting an error has
\* passed every regular file at or below the root to the predicate exactly
\* once; no file is ever passed twice
C5_RecursiveAsksEachOnce ==
    config.Recursive =>
        /\ \A p \in DOMAIN fs : TimesAsked(p) <= 1
        /\ (pc = "done" /\ NoErrorMet) =>
              \A p \in DOMAIN fs :
                  (fs[p].kind = "reg" /\ IsUnder(absTargetDirPath, p)) => TimesAsked(p) = 1

\* a finished error-free recursive walk that asked about files at three depths
C5_Witness ==
    /\ config.Recursive
    /\ pc = "done" /\ NoErrorMet
    /\ \E i, j, k \in 1..Len(predCalls) :
          /\ Len(Components(predCalls[i].path)) = Len(Components(absTargetDirPath)) + 1
          /\ Len(Components(predCalls[j].path)) = Len(Components(absTargetDirPath)) + 2
          /\ Len(Components(predCalls[k].path)) = Len(Components(absTargetDirPath)) + 3
          /\ ~predCalls[j].res

WasOpened(path) == \E j \in 1..Len(opened) : opened[j].path = path

\* a step in which the predicate answers false
RejectStep ==
    /\ Len(predCalls') = Len(predCalls) + 1
    /\ ~Last(predCalls').res

\* C6: a file the predicate rejects is never reported nor opened, the step
\* that rejects it leaves the index, the records and the opened files as
\* they were and answers nil (the walk goes on, or ends without error);
\* every reported file was accepted by the predicate
C6_RejectedNeverReported ==
    /\ [](/\ \A j \in 1..Len(predCalls) :
               ~predCalls[j].res =>
                   ~Reported(predCalls[j].path) /\ ~WasOpened(predCalls[j].path)
          /\ \A j \in 1..Len(records) :
               \E k \in 1..Len(predCalls) :
                   predCalls[k].path = records[j].FilePath /\ predCalls[k].res)
    /\ [][RejectStep =>
            /\ fileHashesToPrevious' = fileHashesToPrevious
            /\ records' = records
            /\ opened' = opened
            /\ Last(visits').ret = Nil
            /\ result' = Nil]_vars

\* a walk with hashing on that rejected a file between two reported files
C6_Witness ==
    /\ ~config.AllowDupes
    /\ pc = "done" /\ result = Nil
    /\ \E i, j, k \in 1..Len(predCalls) :
          /\ i < j /\ j < k
          /\ predCalls[i].res /\ ~predCalls[j].res /\ predCalls[k].res
          /\ Reported(predCalls[k].path)

\* C7: when FoundFileFn returns a failure, whatever its value, that call is
\* the last one of the walk and the walk returns exactly that value
C7_CallbackFailureAborts ==
    \A i \in 1..Len(visits) :
        (Reported(visits[i].path) /\ visits[i].ret # Nil) =>
            /\ i = Len(visits)
            /\ pc = "done"
            /\ result = visits[i].ret

\* C8: with IncludeFileFn or FoundFileFn missing, FindUniqueFiles returns
\* the validation error and nothing else happens: no path resolution, no
\* file system access, no predicate or callback call, no traversal
C8_ValidationFirst ==
    (config.IncludeFileFn = "nil" \/ config.FoundFileFn = "nil") =>
        /\ pc \in {"start", "done"}
        /\ pc = "done" => result.kind = "validation"
        /\ absCalls = 0
        /\ fsAccess = 0
        /\ visits = <<>> /\ frames = <<>>
        /\ predCalls = <<>> /\ records = <<>> /\ opened = <<>>

\* FindUniqueFiles has returned for a configuration that lacks only FoundFileFn
C8_Witness ==
    /\ config.IncludeFileFn = "set" /\ config.FoundFileFn = "nil"
    /\ pc = "done"
    /\ result.kind = "validation"

\* C9: when the traversal reports an error for an entry, in either mode,
\* the walk function answers that error, the call is the last one, the walk
\* returns that same error, and the entry reaches neither the predicate nor
\* the callback
C9_TraversalErrorAborts ==
    \A i \in 1..Len(visits) :
        visits[i].err # Nil =>
            /\ visits[i].ret = visits[i].err
            /\ i = Len(visits)
            /\ pc = "done"
            /\ result = visits[i].err
            /\ ~Asked(visits[i].path)
            /\ ~Reported(visits[i].path)

\* a non-recursive walk that ended on a sub-directory that could not be
\* listed, after a file was reported
C9_Witness ==
    /\ ~config.Recursive
    /\ pc = "done"
    /\ visits # <<>>
    /\ Last(visits).err # Nil
    /\ Last(visits).kind = "dir"
    /\ Last(visits).path # absTargetDirPath
    /\ records # <<>>

\* a step in which opening or reading a file for hashing fails
HashFailStep ==
    /\ Len(opened') = Len(opened) + 1
    /\ Last(opened').err # Nil

\* C10: with AllowDupes = false, a failure to open or read an accepted file
\* ends the walk with an error that names the file and carries the cause
\* (and is not the cause itself); the file is not reported, the step leaves
\* the index as it was, and no entry is processed after it
C10_HashFailureAborts ==
    /\ [](\A i \in 1..Len(opened) :
            opened[i].err # Nil =>
                /\ ~config.AllowDupes
                /\ i = Len(opened)
                /\ Last(visits).path = opened[i].path
                /\ pc = "done"
                /\ result.kind = "failed to hash file"
                /\ result.path = opened[i].path
                /\ result.cause = opened[i].err.cause
                /\ result # opened[i].err
                /\ ~Reported(opened[i].path))
    /\ [][HashFailStep =>
            /\ fileHashesToPrevious' = fileHashesToPrevious
            /\ records' = records]_vars

\* a walk that reported files, filled the index and then failed to read one
C10_Witness ==
    /\ pc = "done"
    /\ opened # <<>>
    /\ Last(opened).err # Nil
    /\ Last(opened).err.kind = "read"
    /\ records # <<>>
    /\ fileHashesToPrevious # EmptyMap

\* a regular file the walk is to cover: the root itself, an entry of the
\* root, or with Recursive = true any file below the root
InScope(path) ==
    /\ fs[path].kind = "reg"
    /\ IsUnder(absTargetDirPath, path)
    /\ config.Recursive \/ ~InSubDir(absTargetDirPath, path)

TimesReported(path) ==
    Cardinality({ j \in 1..Len(records) : records[j].FilePath = path })

Accepted(path) ==
    \E j \in 1..Len(predCalls) : predCalls[j].path = path /\ predCalls[j].res

\* C11: when search() returns success no regular file in scope was skipped:
\* each one was presented to the predicate once, each accepted one was
\* reported exactly once, and no other one was reported
C11_SuccessMeansAllReported ==
    (pc = "done" /\ visits # <<>> /\ result = Nil) =>
        \A p \in DOMAIN fs :
            InScope(p) =>
                /\ TimesAsked(p) = 1
                /\ TimesReported(p) = (IF Accepted(p) THEN 1 ELSE 0)

\* visit i is a call for a directory that is not to be pruned
IsKeptDirVisit(i) ==
    /\ visits[i].kind = "dir"
    /\ config.Recursive \/ visits[i].path = absTargetDirPath

\* visit i was passed over silently: answered nil, never reported or
\* opened, and the walk does not end in an error there
PassedSilently(i) ==
    /\ visits[i].ret = Nil
    /\ ~Reported(visits[i].path)
    /\ ~WasOpened(visits[i].path)
    /\ (i = Len(visits) /\ pc = "done") => result = Nil
    /\ (i = Len(visits) /\ pc # "done") => frames # <<>>

\* a step that visits a directory or an entry that is not a regular file
PassOverStep ==
    /\ Len(visits') = Len(visits) + 1
    /\ Last(visits').kind \in {"dir", "link"}

\* such a step calls neither function, opens nothing and keeps the index
NothingTouched ==
    /\ fileHashesToPrevious' = fileHashesToPrevious
    /\ records' = records
    /\ opened' = opened
    /\ predCalls' = predCalls

\* C12 as stated: EVERY entry that is a directory (not pruned) or not a
\* regular file is skipped silently: not reported, not hashed, index
\* unchanged, no error returned, and the walk continues
C12_Original ==
    /\ [](\A i \in 1..Len(visits) :
            (IsKeptDirVisit(i) \/ visits[i].kind = "link") => PassedSilently(i))
    /\ [][PassOverStep => NothingTouched]_vars

\* C12 amended: as C12, for the entries for which the traversal reports no
\* error (a directory whose listing fails ends the walk with that error)
C12_SkippedSilently ==
    /\ [](\A i \in 1..Len(visits) :
            ((IsKeptDirVisit(i) \/ visits[i].kind = "link") /\ visits[i].err = Nil)
                => PassedSilently(i))
    /\ [][PassOverStep => NothingTouched]_vars

\* a finished walk that went through a sub-directory and a link and
\* reported a file after them
C12_Witness ==
    /\ pc = "done" /\ result = Nil
    /\ \E i, j, k \in 1..Len(visits) :
          /\ i < j /\ j < k
          /\ IsKeptDirVisit(i) /\ visits[i].path # absTargetDirPath
          /\ Reported(visits[j].path)
          /\ visits[k].kind = "link"

\* C13 as stated: the predicate is invoked for every entry the walk visits
\* that is not a directory
C13_Original ==
    \A i \in 1..Len(visits) :
        visits[i].kind \in {"reg", "link"} => Asked(visits[i].path)

\* C13 amended: the predicate is invoked, once and with the absolute path,
\* for every regular file the walk visits, and for nothing else: entries
\* that are neither directories nor regular files are passed over
C13_AsksRegularFiles ==
    /\ \A i \in 1..Len(visits) :
          visits[i].kind = "reg" =>
              /\ TimesAsked(visits[i].path) = 1
              /\ IsAbs(visits[i].path)
    /\ \A j \in 1..Len(predCalls) :
          /\ predCalls[j].path \in DOMAIN fs
          /\ fs[predCalls[j].path].kind = "reg"
          /\ \E i \in 1..Len(visits) : visits[i].path = predCalls[j].path

\* a walk that visited a link and regular files before and after it
C13_Witness ==
    /\ pc = "done"
    /\ \E i, j \in 1..Len(visits) :
          /\ i < j
          /\ visits[i].kind = "reg" /\ Asked(visits[i].path)
          /\ visits[j].kind = "link" /\ ~Asked(visits[j].path)

\* C14: in every record PreviousFilePath is empty exactly when AlreadySeen
\* is false, and the PreviousFilePath of a record with AlreadySeen = true
\* is, appended to the search root, the path of a different file reported
\* earlier in the walk
C14_PreviousIffSeen ==
    \A j \in 1..Len(records) :
        /\ (records[j].PreviousFilePath = <<>>) <=> ~records[j].AlreadySeen
        /\ records[j].AlreadySeen =>
              \E i \in 1..(j - 1) :
                  /\ records[i].FilePath # records[j].FilePath
                  /\ records[i].FilePath = absTargetDirPath \o records[j].PreviousFilePath

\* a walk that reported a file as seen whose first occurrence lies in
\* another directory
C14_Witness ==
    /\ pc = "done"
    /\ \E i, j \in 1..Len(records) :
          /\ i < j
          /\ records[j].AlreadySeen
          /\ records[i].Hash = records[j].Hash
          /\ records[i].ParentDirPath # records[j].ParentDirPath

\* the digests of the files hashed so far, computed from their content
HashedDigests ==
    { hashFileOk(fs[opened[j].path].content, pickHasher(config)) :
          j \in { k \in 1..Len(opened) : opened[k].err = Nil } }

\* a step of the walk
WalkStep == pc \in {"search", "walking"}

\* C15: during a walk no step removes a key of the index or changes the
\* value of one; a step changes the index only by adding the digest of the
\* accepted file it hashes, with AllowDupes = false and the digest absent;
\* the keys are always the digests of the accepted files hashed so far
C15_IndexOnlyGrows ==
    /\ [](DOMAIN fileHashesToPrevious = HashedDigests)
    /\ [][WalkStep =>
            /\ \A h \in DOMAIN fileHashesToPrevious :
                  /\ h \in DOMAIN fileHashesToPrevious'
                  /\ fileHashesToPrevious'[h] = fileHashesToPrevious[h]
            /\ fileHashesToPrevious' # fileHashesToPrevious =>
                  /\ ~config.AllowDupes
                  /\ Len(records') = Len(records) + 1
                  /\ Len(opened') = Len(opened) + 1
                  /\ Last(predCalls').res
                  /\ Last(predCalls').path = Last(records').FilePath
                  /\ ~Last(records').AlreadySeen
                  /\ Last(records').Hash \notin DOMAIN fileHashesToPrevious
                  /\ DOMAIN fileHashesToPrevious' =
                        DOMAIN fileHashesToPrevious \cup {Last(records').Hash}]_vars

\* a finished walk whose index holds two digests and that met one of them again
C15_Witness ==
    /\ pc = "done"
    /\ Cardinality(DOMAIN fileHashesToPrevious) >= 2
    /\ \E j \in 1..Len(records) : records[j].AlreadySeen

\* the number of file handles open after the first k events
OpenCount(k) ==
    Cardinality({ i \in 1..k : events[i].ev = "open" })
        - Cardinality({ i \in 1..k : events[i].ev = "close" })

\* C16: at every moment of the walk at most one file handle is open; a
\* handle is opened only to read one file and is closed right after the
\* read, whether the read succeeds or fails, so none is open when the
\* callback is invoked, when the next entry is visited, or when the walk
\* returns
C16_OneHandleAtATime ==
    /\ \A k \in 1..Len(events) :
          /\ OpenCount(k) \in {0, 1}
          /\ events[k].ev \in {"visit", "found", "return", "openfail"} => OpenCount(k) = 0
          /\ events[k].ev = "open" =>
                /\ k + 2 <= Len(events)
                /\ events[k + 1].ev \in {"read", "readfail"}
                /\ events[k + 1].path = events[k].path
                /\ events[k + 2] = Event("close", events[k].path)
          /\ events[k].ev = "close" =>
                /\ k > 2
                /\ events[k - 2] = Event("open", events[k].path)
    /\ pc = "done" => OpenCount(Len(events)) = 0

\* a walk that hashed and reported one file and ended on a failed read of
\* another one
C16_Witness ==
    /\ pc = "done"
    /\ \E i, k \in 1..Len(events) :
          /\ i < k
          /\ k + 2 <= Len(events)
          /\ events[i].ev = "read" /\ events[i + 2].ev = "found"
          /\ events[k].ev = "readfail"
          /\ events[k + 1].ev = "close"
          /\ events[k + 2].ev = "return"

\* the digest a record of the file at path carries under the configuration
ExpectedHash(path) ==
    IF config.AllowDupes THEN <<>>
    ELSE hashFileOk(fs[path].content, pickHasher(config))

\* the reports of this invocation before report j with the digest of j
EarlierReports(j) ==
    { i \in 1..(j - 1) :
          ExpectedHash(records[i].FilePath) = ExpectedHash(records[j].FilePath) }

\* C17: every invocation starts from an empty index that holds nothing of
\* the invocations before it: the records of an invocation are determined
\* by the tree, the configuration and the files it reports alone - a file
\* is AlreadySeen exactly when this invocation reported an earlier file of
\* the same digest, whatever earlier invocations indexed - so invocations
\* that report the same files produce the same records
C17_FreshIndexPerCall ==
    /\ pc = "search" => fileHashesToPrevious = EmptyMap
    /\ DOMAIN fileHashesToPrevious \subseteq { records[j].Hash : j \in 1..Len(records) }
    /\ \A j \in 1..Len(records) :
          /\ records[j].Hash = ExpectedHash(records[j].FilePath)
          /\ records[j].AlreadySeen <=> (~config.AllowDupes /\ EarlierReports(j) # {})
          /\ records[j].AlreadySeen =>
                \E i \in EarlierReports(j) :
                    /\ \A k \in EarlierReports(j) : i <= k
                    /\ records[j].PreviousFilePath =
                          storedPath(records[i].FilePath, Abs(config.TargetDirPath))

\* a second invocation that met digests the first one had indexed: it
\* reported the first file of such a digest as not seen and a later one as seen
C17_Witness ==
    /\ calls = 2
    /\ pc = "done"
    /\ \E i, j \in 1..Len(records) :
          /\ i < j
          /\ records[i].Hash \in earlier
          /\ ~records[i].AlreadySeen
          /\ records[j].Hash = records[i].Hash
          /\ records[j].AlreadySeen

====
